---------------------------- MODULE Spec2Model ----------------------------
(***************************************************************************)
(* Session lifecycle, token refresh and two-factor verification of the     *)
(* CAAS frontend.                                                          *)
(*                                                                         *)
(*   stores/auth.ts (pinia store)      src/unnamed/part_002                *)
(*   api/axios.config.ts               src/frontend/src/api/axios.config.ts*)
(*   api/services/auth.service.ts      src/frontend/src/api/services/...   *)
(*   router/index.ts (beforeEach)      src/frontend/src/router/index.ts    *)
(*   views/auth/TwoFactorAuth.vue      src/unnamed/part_000                *)
(*                                                                         *)
(* Two specifications share the variables.  Spec is the session: the store,*)
(* the two storage partitions, the calls in flight and the two session     *)
(* timers; one Tick of it is a minute.  SpecView is one mounted            *)
(* TwoFactorAuth view; its intervals call back once per second and one     *)
(* ViewTick of it is TickSeconds seconds.                                  *)
(*                                                                         *)
(* Time is kept relative to the present: a setTimeout handle holds the     *)
(* delay that remains, and a timestamp taken from Date.now() (lastActivity,*)
(* the issue of a challenge) is kept as its age, now - timestamp.          *)
(***************************************************************************)
EXTENDS Integers, Sequences, FiniteSets, TLC

\* ------------------------------------------------------------ constants
\* Session durations, in minutes (the source writes them in milliseconds).
EphemeralTimeout == 15
DurableTimeout == 10080
WarningDelay == 13
\* TwoFactorAuth.vue: attempts of a challenge, its countdown and the resend
\* cooldown, both in seconds.
MaxAttempts == 5
ChallengeSeconds == 300
CooldownSeconds == 60
\* Lifetime of a 2FA challenge at the authentication service, in minutes.
ChallengeLifetime == ChallengeSeconds \div 60

\* Bounds of the model: the calls that may be outstanding at once, and the
\* age up to which the model follows lastActivity (older is not told apart).
MaxInFlight == 2
MaxAge == 1
\* Bounds of the view's model: the seconds one step of its clock takes, the
\* resend calls outstanding and resend intervals leaked that the model
\* follows, how far below zero it follows the resend cooldown (lower is
\* not told apart), and the auto-submit debounces pending at once.
TickSeconds == 10
MaxResendCalls == 2
MaxOverrun == 1
MaxDebounce == 2

Null == "null"
\* Token values: none stored, issued by login or verify, issued by refresh.
NoToken == "none"
LoginToken == "login"
RefreshedToken == "refreshed"

\* ------------------------------------------------------------ state
VARIABLES
  store,           \* the pinia auth store's state
  localStorage,    \* durable partition: access_token, refresh_token, user, rememberMe
  sessionStorage,  \* ephemeral partition: user
  listeners,       \* TRUE while handleUserActivity is registered on window
  published,       \* events the last operation dispatched on timeoutEvent
  loginCall,       \* POST /auth/login/ in flight
  verifyCall,      \* POST /auth/2fa/verify/ in flight
  logoutCalls,     \* POST /auth/logout/ in flight, by isSessionTimeout
  initCall,        \* initializeAuth suspended at getCurrentUser()
  requests,        \* authenticated calls through apiClient
  last,            \* the operation that produced this state, where a claim names it
  view             \* the mounted TwoFactorAuth view

vars == <<store, localStorage, sessionStorage, listeners, published,
          loginCall, verifyCall, logoutCalls, initCall, requests, last, view>>

\* A setTimeout handle: null, or set with the delay that remains; pending
\* until it has fired or been cleared (a handle that fired stays non-null).
NullTimer == [set |-> FALSE, remaining |-> 0, pending |-> FALSE]
Armed(delay) == [set |-> TRUE, remaining |-> delay, pending |-> TRUE]

\* A challenge token is opaque to the client.  The model carries in it what
\* the service knows of it: the rememberMe flag of the login call it answers
\* and its age.
NoChallenge == [issued |-> FALSE, rememberMe |-> FALSE, age |-> 0]
Challenge(rm) == [issued |-> TRUE, rememberMe |-> rm, age |-> 0]

InitStore ==
  [ user |-> Null, isAuthenticated |-> FALSE, isLoading |-> FALSE,
    sessionTimer |-> NullTimer, sessionWarningTimer |-> NullTimer,
    sessionWarningActive |-> FALSE, sessionTimeout |-> EphemeralTimeout,
    twoFactorRequired |-> FALSE, twoFactorToken |-> NoChallenge,
    lastActivity |-> 0, orphaned |-> 0 ]

EmptyLocal == [access_token |-> NoToken, refresh_token |-> NoToken,
               user |-> Null, rememberMe |-> Null]
EmptySession == [user |-> Null]

IdleLogin == [phase |-> "idle", rememberMe |-> FALSE]
IdleVerify == [phase |-> "idle", token |-> NoChallenge]
IdleInit == [phase |-> "idle", rememberMe |-> FALSE, fromGuard |-> FALSE]
IdleRequest == [phase |-> "idle", retry |-> FALSE, bearer |-> NoToken, refresh |-> NoToken]
NoView == [mounted |-> FALSE]

\* The world an operation of the store reads and writes.
NoEvents == [warning |-> 0, timeout |-> 0]

World == [store |-> store, ls |-> localStorage, ss |-> sessionStorage,
          listeners |-> listeners, published |-> NoEvents]

Commit(w) ==
  /\ store' = w.store
  /\ localStorage' = w.ls
  /\ sessionStorage' = w.ss
  /\ listeners' = w.listeners
  /\ published' = w.published

\* ------------------------------------------------------------ axios.config.ts
setTokens(w, access, refresh) ==
  [w EXCEPT !.ls.access_token = access, !.ls.refresh_token = refresh]

clearTokens(w) ==
  [w EXCEPT !.ls.access_token = NoToken, !.ls.refresh_token = NoToken]

\* ------------------------------------------------------------ stores/auth.ts
rememberMeFlag(w) == w.ls.rememberMe = "true"

clearSessionTimers(w) ==
  [w EXCEPT !.store.sessionTimer = NullTimer,
            !.store.sessionWarningTimer = NullTimer,
            !.store.sessionWarningActive = FALSE]

\* The pending timeouts whose handles the assignments of lines 178 and 185
\* overwrite: they keep running and no handle names them (store.orphaned
\* counts them).
orphans(st) ==
  (IF st.sessionWarningTimer.pending THEN 1 ELSE 0)
  + (IF st.sessionTimer.pending THEN 1 ELSE 0)

\* startSessionTimers() without the clearSessionTimers() of line 172.
startSessionTimers_noClear(w) ==
  IF rememberMeFlag(w)
  THEN w
  ELSE [w EXCEPT !.store.sessionWarningTimer = Armed(WarningDelay),
                 !.store.sessionTimer = Armed(w.store.sessionTimeout),
                 !.store.orphaned = @ + orphans(w.store)]

startSessionTimers_always(w) ==
  LET c == clearSessionTimers(w)
  IN  [c EXCEPT !.store.sessionWarningTimer = Armed(WarningDelay),
                !.store.sessionTimer = Armed(c.store.sessionTimeout)]

startSessionTimers(w) ==
  LET c == clearSessionTimers(w)
  IN  IF rememberMeFlag(c)
      THEN c
      ELSE [c EXCEPT !.store.sessionWarningTimer = Armed(WarningDelay),
                     !.store.sessionTimer = Armed(c.store.sessionTimeout),
                     !.store.orphaned = @ + orphans(c.store)]

resetSessionTimers(w) ==
  LET a == [w EXCEPT !.store.lastActivity = 0]
  IN  IF a.store.isAuthenticated THEN startSessionTimers(a) ELSE a

removeActivityListeners(w) == [w EXCEPT !.listeners = FALSE]

setupActivityListeners(w) ==
  LET r == removeActivityListeners(w)
  IN  IF ~rememberMeFlag(r) /\ r.store.isAuthenticated
      THEN [r EXCEPT !.listeners = TRUE]
      ELSE r

handleUserActivity(w) ==
  IF w.store.isAuthenticated /\ ~w.store.sessionWarningActive
  THEN resetSessionTimers(w)
  ELSE w

\* clearAuthState() without the clearSessionTimers() of line 236.
clearAuthState_keepsTimers(w) ==
  LET a == [w EXCEPT !.store.user = Null,
                     !.store.isAuthenticated = FALSE,
                     !.store.twoFactorRequired = FALSE,
                     !.store.twoFactorToken = NoChallenge]
      b == clearTokens(a)
  IN  [b EXCEPT !.ls.user = Null, !.ls.rememberMe = Null, !.ss.user = Null]

\* clearAuthState() (lines 230-242).
clearAuthState(w) ==
  LET a == [w EXCEPT !.store.user = Null,
                     !.store.isAuthenticated = FALSE,
                     !.store.twoFactorRequired = FALSE,
                     !.store.twoFactorToken = NoChallenge]
      b == clearTokens(clearSessionTimers(a))
  IN  [b EXCEPT !.ls.user = Null, !.ls.rememberMe = Null, !.ss.user = Null]

\* login(): the response asks for a second factor (lines 57-65, finally 93).
loginRequires2FA(w, rm, tok) ==
  LET a == [w EXCEPT !.store.twoFactorRequired = TRUE,
                     !.store.twoFactorToken = tok]
      b == IF rm THEN [a EXCEPT !.ls.rememberMe = "true"] ELSE a
  IN  [b EXCEPT !.store.isLoading = FALSE]

\* AuthService.login stores the tokens, then login() lines 67-86 and 93.
loginAuthenticated(w, rm) ==
  LET s == setTokens(w, LoginToken, LoginToken)
      a == [s EXCEPT !.store.user = "user", !.store.isAuthenticated = TRUE]
      b == IF rm
           THEN [a EXCEPT !.ls.user = "user", !.ls.rememberMe = "true",
                          !.store.sessionTimeout = DurableTimeout]
           ELSE [a EXCEPT !.ss.user = "user", !.ls.rememberMe = Null,
                          !.store.sessionTimeout = EphemeralTimeout]
      c == [b EXCEPT !.store.lastActivity = 0]
      d == setupActivityListeners(startSessionTimers(c))
  IN  [d EXCEPT !.store.isLoading = FALSE]

\* login(): the call is rejected (catch, lines 87-94).
loginFailed(w) ==
  [w EXCEPT !.store.isAuthenticated = FALSE, !.store.user = Null,
            !.store.isLoading = FALSE]

\* verifyTwoFactor() without the assignments of lines 110-111.
verifyTwoFactorOk_keepsChallenge(w) ==
  LET s == setTokens(w, LoginToken, LoginToken)
      a == [s EXCEPT !.store.user = "user", !.store.isAuthenticated = TRUE]
      b == IF rememberMeFlag(a)
           THEN [a EXCEPT !.ls.user = "user",
                          !.store.sessionTimeout = DurableTimeout]
           ELSE [a EXCEPT !.ss.user = "user",
                          !.store.sessionTimeout = EphemeralTimeout]
      c == [b EXCEPT !.store.lastActivity = 0]
  IN  setupActivityListeners(startSessionTimers(c))

\* AuthService.verifyTwoFactor stores the tokens, then verifyTwoFactor()
\* lines 108-125.
verifyTwoFactorOk(w) ==
  LET s == setTokens(w, LoginToken, LoginToken)
      a == [s EXCEPT !.store.user = "user", !.store.isAuthenticated = TRUE,
                     !.store.twoFactorRequired = FALSE,
                     !.store.twoFactorToken = NoChallenge]
      b == IF rememberMeFlag(a)
           THEN [a EXCEPT !.ls.user = "user",
                          !.store.sessionTimeout = DurableTimeout]
           ELSE [a EXCEPT !.ss.user = "user",
                          !.store.sessionTimeout = EphemeralTimeout]
      c == [b EXCEPT !.store.lastActivity = 0]
  IN  setupActivityListeners(startSessionTimers(c))

publishTimeout(w) == [w EXCEPT !.published.timeout = @ + 1]

logoutDone_publishAlways(w, isSessionTimeout) ==
  publishTimeout(removeActivityListeners(clearAuthState(clearTokens(w))))

\* logout() once the remote call has settled: AuthService.logout's finally
\* (clearTokens), then the store's finally (lines 221-226).
logoutDone(w, isSessionTimeout) ==
  LET a == removeActivityListeners(clearAuthState(clearTokens(w)))
  IN  IF isSessionTimeout THEN publishTimeout(a) ELSE a

\* initializeAuth(): which branch the stored data selects (lines 246-254, 294).
initBranch(w) ==
  LET saved == IF rememberMeFlag(w) THEN w.ls.user ELSE w.ss.user
  IN  IF w.ls.access_token # NoToken /\ saved # Null THEN "cached"
      ELSE IF w.ls.access_token # NoToken THEN "fetch"
      ELSE "none"

\* initializeAuth() up to its first await (or to its end, without a token).
initializeAuthStart(w) ==
  LET rm == rememberMeFlag(w)
      saved == IF rm THEN w.ls.user ELSE w.ss.user
  IN  CASE initBranch(w) = "cached" ->
             LET a == [w EXCEPT !.store.user = saved,
                                !.store.isAuthenticated = TRUE,
                                !.store.isLoading = FALSE,
                                !.store.sessionTimeout =
                                   IF rm THEN DurableTimeout ELSE EphemeralTimeout,
                                !.store.lastActivity = 0]
             IN  setupActivityListeners(startSessionTimers(a))
        [] initBranch(w) = "fetch" -> [w EXCEPT !.store.isLoading = TRUE]
        [] OTHER -> clearAuthState(w)

\* initializeAuth() after getCurrentUser() resolved.  rm is the constant
\* rememberMe read before the await.
initializeAuthUserOk(w, branch, rm) ==
  IF branch = "cached"
  THEN IF rm THEN [w EXCEPT !.store.user = "user", !.ls.user = "user"]
             ELSE [w EXCEPT !.store.user = "user", !.ss.user = "user"]
  ELSE LET a == [w EXCEPT !.store.user = "user", !.store.isAuthenticated = TRUE]
           b == IF rm
                THEN [a EXCEPT !.ls.user = "user",
                               !.store.sessionTimeout = DurableTimeout]
                ELSE [a EXCEPT !.ss.user = "user",
                               !.store.sessionTimeout = EphemeralTimeout]
           c == [b EXCEPT !.store.lastActivity = 0]
           d == setupActivityListeners(startSessionTimers(c))
       IN  [d EXCEPT !.store.isLoading = FALSE]

\* initializeAuth() after getCurrentUser() rejected.
initializeAuthUserFailed(w, branch) ==
  IF branch = "cached"
  THEN w
  ELSE [clearAuthState(w) EXCEPT !.store.isLoading = FALSE]

\* router.beforeEach on a route that requires authentication, after the
\* optional initializeAuth(): lines 301-326.
guardAfterInit(w) ==
  IF ~w.store.isAuthenticated THEN w ELSE resetSessionTimers(w)


\* router.beforeEach on a route that requires authentication: where the
\* guard sends the navigation once initializeAuth() has returned (lines
\* 301-312; "route" stands for the requested route or Forbidden).
guardRedirect(st) ==
  IF st.isAuthenticated THEN "route"
  ELSE IF st.twoFactorRequired /\ st.twoFactorToken # NoChallenge
       THEN "TwoFactorAuth"
       ELSE "Login"

\* A page load: every script state is new, the two storages persist, and
\* main.ts calls authStore.initializeAuth().
pageLoad(w) ==
  initializeAuthStart([w EXCEPT !.store = InitStore, !.listeners = FALSE])

\* ------------------------------------------------------------ calls in flight
ApiSlots == 1..MaxInFlight

\* Calls made through apiClient.
ClientCallsInFlight ==
  (IF loginCall.phase # "idle" THEN 1 ELSE 0)
  + (IF verifyCall.phase # "idle" THEN 1 ELSE 0)
  + Cardinality(logoutCalls)
  + (IF initCall.phase # "idle" THEN 1 ELSE 0)
  + Cardinality({i \in ApiSlots : requests[i].phase = "sent"})

\* Refresh calls, made with bare axios by the response interceptor.
RefreshCallsInFlight ==
  Cardinality({i \in ApiSlots : requests[i].phase = "refreshing"})

InFlight == ClientCallsInFlight + RefreshCallsInFlight

Did(op, rm) == last' = [op |-> op, rm |-> rm]

\* The operation leaves the store and the storages as they are.
Quiet == Commit(World)

\* ------------------------------------------------------------ actions: login
\* LoginView.handleLogin -> authStore.login(credentials).  The login view is
\* reachable only while not authenticated (router.beforeEach line 330).
LoginSend(rm) ==
  /\ ~store.isAuthenticated
  /\ loginCall.phase = "idle"
  /\ InFlight < MaxInFlight
  /\ loginCall' = [phase |-> "sent", rememberMe |-> rm]
  /\ Commit([World EXCEPT !.store.isLoading = TRUE])
  /\ Did("LoginSend", rm)
  /\ UNCHANGED <<verifyCall, logoutCalls, initCall, requests, view>>

LoginRequires2FA ==
  /\ loginCall.phase = "sent"
  /\ Commit(loginRequires2FA(World, loginCall.rememberMe,
                             Challenge(loginCall.rememberMe)))
  /\ loginCall' = IdleLogin
  /\ Did("LoginRequires2FA", loginCall.rememberMe)
  /\ UNCHANGED <<verifyCall, logoutCalls, initCall, requests, view>>

LoginAuthenticated ==
  /\ loginCall.phase = "sent"
  /\ Commit(loginAuthenticated(World, loginCall.rememberMe))
  /\ loginCall' = IdleLogin
  /\ Did("LoginAuthenticated", loginCall.rememberMe)
  /\ UNCHANGED <<verifyCall, logoutCalls, initCall, requests, view>>

LoginFailed ==
  /\ loginCall.phase = "sent"
  /\ Commit(loginFailed(World))
  /\ loginCall' = IdleLogin
  /\ Did("LoginFailed", loginCall.rememberMe)
  /\ UNCHANGED <<verifyCall, logoutCalls, initCall, requests, view>>

\* ------------------------------------------------------------ actions: 2FA
\* authStore.verifyTwoFactor(code): throws without a token, else posts it.
VerifySend ==
  /\ store.twoFactorToken # NoChallenge
  /\ verifyCall.phase = "idle"
  /\ InFlight < MaxInFlight
  /\ verifyCall' = [phase |-> "sent", token |-> store.twoFactorToken]
  /\ Quiet
  /\ Did("VerifySend", store.twoFactorToken.rememberMe)
  /\ UNCHANGED <<loginCall, logoutCalls, initCall, requests, view>>

\* The service accepts the code: the challenge has not expired.
VerifyOk ==
  /\ verifyCall.phase = "sent"
  /\ verifyCall.token.age <= ChallengeLifetime
  /\ Commit(verifyTwoFactorOk(World))
  /\ verifyCall' = IdleVerify
  /\ Did("VerifyOk", verifyCall.token.rememberMe)
  /\ UNCHANGED <<loginCall, logoutCalls, initCall, requests, view>>

\* The service rejects the code; verifyTwoFactor() rethrows (lines 126-128).
VerifyRejected ==
  /\ verifyCall.phase = "sent"
  /\ verifyCall' = IdleVerify
  /\ Quiet
  /\ Did("VerifyRejected", verifyCall.token.rememberMe)
  /\ UNCHANGED <<loginCall, logoutCalls, initCall, requests, view>>

\* ------------------------------------------------------------ actions: logout
\* A voluntary logout: authStore.logout() from an authenticated page.
LogoutSend ==
  /\ store.isAuthenticated
  /\ FALSE \notin logoutCalls
  /\ InFlight < MaxInFlight
  /\ logoutCalls' = logoutCalls \cup {FALSE}
  /\ Quiet
  /\ Did("LogoutSend", FALSE)
  /\ UNCHANGED <<loginCall, verifyCall, initCall, requests, view>>

\* The remote logout settled.  Success and failure continue alike:
\* AuthService.logout swallows a failure (auth.service.ts lines 56-65) and
\* logout() runs its finally after either (lines 219-226).
LogoutDone(isSessionTimeout) ==
  /\ isSessionTimeout \in logoutCalls
  /\ Commit(logoutDone(World, isSessionTimeout))
  /\ logoutCalls' = logoutCalls \ {isSessionTimeout}
  /\ Did("LogoutDone", isSessionTimeout)
  /\ UNCHANGED <<loginCall, verifyCall, initCall, requests, view>>

\* ------------------------------------------------------------ actions: timers
Due(timer) == timer.pending /\ timer.remaining = 0

\* The sessionWarningTimer callback (lines 178-182): it raises the flag and
\* dispatches nothing.
warningTimerCallback(w) ==
  [w EXCEPT !.store.sessionWarningTimer.pending = FALSE,
            !.store.sessionWarningActive = TRUE]

WarningTimerFires ==
  /\ Due(store.sessionWarningTimer)
  /\ Commit(warningTimerCallback(World))
  /\ Did("WarningTimerFires", FALSE)
  /\ UNCHANGED <<loginCall, verifyCall, logoutCalls, initCall, requests, view>>

\* The sessionTimer callback (lines 185-188): this.logout(true), which first
\* awaits the remote logout.
SessionTimerFires ==
  /\ Due(store.sessionTimer)
  /\ Commit([World EXCEPT !.store.sessionTimer.pending = FALSE])
  /\ logoutCalls' = logoutCalls \cup {TRUE}
  /\ Did("SessionTimerFires", FALSE)
  /\ UNCHANGED <<loginCall, verifyCall, initCall, requests, view>>

\* mousedown, keydown, scroll or touchstart while the listener is registered.
UserActivity ==
  /\ listeners
  /\ Commit(handleUserActivity(World))
  /\ Did("UserActivity", FALSE)
  /\ UNCHANGED <<loginCall, verifyCall, logoutCalls, initCall, requests, view>>

\* extend(): an explicit authStore.resetSessionTimers().
Extend ==
  /\ Commit(resetSessionTimers(World))
  /\ Did("Extend", FALSE)
  /\ UNCHANGED <<loginCall, verifyCall, logoutCalls, initCall, requests, view>>

\* ------------------------------------------------------------ actions: restore
\* router.beforeEach for a route with meta.requiresAuth (lines 294-327).
Navigate ==
  /\ initCall.phase = "idle"
  /\ IF store.isAuthenticated \/ store.isLoading
     THEN /\ Commit(guardAfterInit(World))
          /\ UNCHANGED initCall
     ELSE IF initBranch(World) = "none"
          THEN /\ Commit(guardAfterInit(initializeAuthStart(World)))
               /\ UNCHANGED initCall
          ELSE /\ InFlight < MaxInFlight
               /\ Commit(initializeAuthStart(World))
               /\ initCall' = [phase |-> initBranch(World),
                               rememberMe |-> rememberMeFlag(World),
                               fromGuard |-> TRUE]
  /\ Did("Navigate", FALSE)
  /\ UNCHANGED <<loginCall, verifyCall, logoutCalls, requests, view>>

\* The calls of the page that is left are never answered; the new page is
\* suspended at getCurrentUser() when a token was stored.
pageLoadCalls(w) ==
  /\ loginCall' = IdleLogin
  /\ verifyCall' = IdleVerify
  /\ logoutCalls' = {}
  /\ requests' = [i \in ApiSlots |-> IdleRequest]
  /\ initCall' = IF initBranch(w) = "none" THEN IdleInit
                 ELSE [phase |-> initBranch(w), rememberMe |-> rememberMeFlag(w),
                       fromGuard |-> FALSE]

Reload ==
  /\ Commit(pageLoad(World))
  /\ pageLoadCalls(World)
  /\ Did("Reload", FALSE)
  /\ UNCHANGED view

InitUserOk ==
  /\ initCall.phase # "idle"
  /\ LET w == initializeAuthUserOk(World, initCall.phase, initCall.rememberMe)
     IN  Commit(IF initCall.fromGuard THEN guardAfterInit(w) ELSE w)
  /\ initCall' = IdleInit
  /\ Did("InitUserOk", initCall.rememberMe)
  /\ UNCHANGED <<loginCall, verifyCall, logoutCalls, requests, view>>

InitUserFailed ==
  /\ initCall.phase # "idle"
  /\ LET w == initializeAuthUserFailed(World, initCall.phase)
     IN  Commit(IF initCall.fromGuard THEN guardAfterInit(w) ELSE w)
  /\ initCall' = IdleInit
  /\ Did("InitUserFailed", initCall.rememberMe)
  /\ UNCHANGED <<loginCall, verifyCall, logoutCalls, requests, view>>

\* ------------------------------------------------------------ actions: apiClient
\* An authenticated call; the request interceptor attaches the stored token.
ApiSend(i) ==
  /\ store.isAuthenticated
  /\ requests[i].phase = "idle"
  /\ \A j \in ApiSlots : j < i => requests[j].phase # "idle"
  /\ InFlight < MaxInFlight
  /\ requests' = [requests EXCEPT ![i] =
                    [phase |-> "sent", retry |-> FALSE,
                     bearer |-> localStorage.access_token, refresh |-> NoToken]]
  /\ Quiet
  /\ Did("ApiSend", FALSE)
  /\ UNCHANGED <<loginCall, verifyCall, logoutCalls, initCall, view>>

\* A 2xx response, or an error other than 401: passed to the caller.
ApiSettled(i) ==
  /\ requests[i].phase = "sent"
  /\ requests' = [requests EXCEPT ![i] = IdleRequest]
  /\ Quiet
  /\ Did("ApiSettled", FALSE)
  /\ UNCHANGED <<loginCall, verifyCall, logoutCalls, initCall, view>>

\* The decision on a 401 without the !originalRequest._retry of line 75.
refreshesOn401_ignoresRetry(req, ls) == ls.refresh_token # NoToken

\* The response interceptor's decision on a 401 (line 75).
refreshesOn401(req, ls) == ~req.retry /\ ls.refresh_token # NoToken

\* A 401 response (lines 71-83, 106): a refresh call, or the rejection.
Api401(i) ==
  /\ requests[i].phase = "sent"
  /\ requests' = [requests EXCEPT ![i] =
                    IF refreshesOn401(requests[i], localStorage)
                    THEN [phase |-> "refreshing", retry |-> TRUE,
                          bearer |-> requests[i].bearer,
                          refresh |-> localStorage.refresh_token]
                    ELSE IdleRequest]
  /\ Quiet
  /\ Did("Api401", FALSE)
  /\ UNCHANGED <<loginCall, verifyCall, logoutCalls, initCall, view>>

\* The refresh call succeeded (lines 85-91): the new pair is stored and the
\* original request is sent again.
refreshSucceeded(w, req) == setTokens(w, RefreshedToken, req.refresh)

RefreshOk(i) ==
  /\ requests[i].phase = "refreshing"
  /\ Commit(refreshSucceeded(World, requests[i]))
  /\ requests' = [requests EXCEPT ![i] =
                    [phase |-> "sent", retry |-> TRUE,
                     bearer |-> RefreshedToken, refresh |-> NoToken]]
  /\ Did("RefreshOk", FALSE)
  /\ UNCHANGED <<loginCall, verifyCall, logoutCalls, initCall, view>>

\* The catch of lines 93-98 without its clearTokens().
refreshFailed_keepsTokens(w) == pageLoad(w)

\* The refresh call failed (lines 93-98): the tokens are cleared and
\* window.location.href loads the login page.
refreshFailed(w) == pageLoad(clearTokens(w))

\* The page load leaves the rejected request, and every other call,
\* unanswered.
RefreshFailed(i) ==
  /\ requests[i].phase = "refreshing"
  /\ Commit(refreshFailed(World))
  /\ pageLoadCalls(clearTokens(World))
  /\ Did("RefreshFailed", FALSE)
  /\ UNCHANGED view

\* ------------------------------------------------------------ time
\* A delay of days does not run out in the model.
elapse(timer) ==
  IF timer.pending /\ timer.remaining <= EphemeralTimeout
  THEN [timer EXCEPT !.remaining = @ - 1]
  ELSE timer

older(age, max) == IF age < max THEN age + 1 ELSE age

\* A minute passes.  A timer that is due fires first, and the calls in flight
\* have settled: a call is short against a minute (apiClient: timeout 15000).
Tick ==
  /\ ~Due(store.sessionTimer)
  /\ ~Due(store.sessionWarningTimer)
  /\ InFlight = 0
  /\ Commit([World EXCEPT
         !.store.sessionTimer = elapse(@),
         !.store.sessionWarningTimer = elapse(@),
         !.store.lastActivity = older(@, MaxAge),
         !.store.twoFactorToken.age =
            IF store.twoFactorToken.issued THEN older(@, ChallengeLifetime + 1) ELSE @])
  /\ Did("Tick", FALSE)
  /\ UNCHANGED <<loginCall, verifyCall, logoutCalls, initCall, requests, view>>

\* ------------------------------------------------------------ specification
Init ==
  /\ store = InitStore
  /\ localStorage = EmptyLocal
  /\ sessionStorage = EmptySession
  /\ listeners = FALSE
  /\ published = NoEvents
  /\ loginCall = IdleLogin
  /\ verifyCall = IdleVerify
  /\ logoutCalls = {}
  /\ initCall = IdleInit
  /\ requests = [i \in ApiSlots |-> IdleRequest]
  /\ last = [op |-> "Init", rm |-> FALSE]
  /\ view = NoView

Next ==
  \/ \E rm \in BOOLEAN : LoginSend(rm)
  \/ LoginRequires2FA
  \/ LoginAuthenticated
  \/ LoginFailed
  \/ VerifySend
  \/ VerifyOk
  \/ VerifyRejected
  \/ LogoutSend
  \/ \E b \in BOOLEAN : LogoutDone(b)
  \/ WarningTimerFires
  \/ SessionTimerFires
  \/ UserActivity
  \/ Extend
  \/ Navigate
  \/ Reload
  \/ InitUserOk
  \/ InitUserFailed
  \/ \E i \in ApiSlots : ApiSend(i)
  \/ \E i \in ApiSlots : ApiSettled(i)
  \/ \E i \in ApiSlots : Api401(i)
  \/ \E i \in ApiSlots : RefreshOk(i)
  \/ \E i \in ApiSlots : RefreshFailed(i)
  \/ Tick

Spec == Init /\ [][Next]_vars

\* ------------------------------------------------------------ TwoFactorAuth.vue
\* The component's refs and timers (lines 165-181), the callbacks it has
\* scheduled, and the attempts the authentication service has left for the
\* challenge (serviceAttempts):
\*   timer        the countdown interval is running
\*   resendTimer  the interval the variable resendTimer names is running
\*   leaked       resend intervals that run and that no variable names
\*   autoSubmit   the 100 ms debounces of a completed code that are pending
\*   delayed      the redirect callbacks that are pending
\*   resending    resend calls in flight
\*   verifying    verify calls in flight
\*   overdue      the intervals were suspended for longer than the time the
\*                countdown showed: 300 seconds have passed on the wall clock
MountedView ==
  [mounted |-> TRUE, complete |-> FALSE, isLoading |-> FALSE,
   remainingAttempts |-> MaxAttempts, timeRemaining |-> ChallengeSeconds,
   resendCooldown |-> 0, timer |-> TRUE, resendTimer |-> FALSE, leaked |-> 0,
   autoSubmit |-> 0, delayed |-> {}, resending |-> 0, verifying |-> 0,
   overdue |-> FALSE, serviceAttempts |-> MaxAttempts]

\* onUnmounted (lines 432-435).
onUnmounted(v) ==
  [v EXCEPT !.mounted = FALSE, !.timer = FALSE, !.resendTimer = FALSE]

\* setTimeout(callback, delay) of a redirect.
later(v, callback) == [v EXCEPT !.delayed = @ \cup {callback}]

ViewDid(op) == Did(op, FALSE)

ViewCallsInFlight == view.verifying + view.resending

\* handleInput fills the last empty slot (lines 202-226): one more debounce.
ViewEnterCode ==
  /\ view.mounted
  /\ ~view.complete
  /\ view.autoSubmit < MaxDebounce
  /\ view' = [view EXCEPT !.complete = TRUE, !.autoSubmit = @ + 1]
  /\ Quiet
  /\ ViewDid("ViewEnterCode")
  /\ UNCHANGED <<loginCall, verifyCall, logoutCalls, initCall, requests>>

\* handlePaste without the setTimeout of lines 252-256.
handlePaste_noSubmit(v) == [v EXCEPT !.complete = TRUE]

\* handlePaste with six digits on the clipboard (lines 241-257): every slot
\* is filled and one debounce is scheduled.
handlePaste(v) == [v EXCEPT !.complete = TRUE, !.autoSubmit = @ + 1]

ViewPaste ==
  /\ view.mounted
  /\ view.autoSubmit < MaxDebounce
  /\ view' = handlePaste(view)
  /\ Quiet
  /\ ViewDid("ViewPaste")
  /\ UNCHANGED <<loginCall, verifyCall, logoutCalls, initCall, requests>>

\* handleInput with an empty value: a slot is emptied.
ViewEraseDigit ==
  /\ view.mounted
  /\ view.complete
  /\ view' = [view EXCEPT !.complete = FALSE]
  /\ Quiet
  /\ ViewDid("ViewEraseDigit")
  /\ UNCHANGED <<loginCall, verifyCall, logoutCalls, initCall, requests>>

\* verifyCode() without the isLoading half of the guard of line 281.
verifyCode_ignoresLoading(v, st) ==
  IF ~v.complete THEN v
  ELSE IF st.twoFactorToken = NoChallenge THEN later(v, "login")
  ELSE [v EXCEPT !.isLoading = TRUE, !.verifying = @ + 1]

\* verifyCode() up to its await (lines 280-295), where
\* authStore.verifyTwoFactor posts the code.
verifyCode(v, st) ==
  IF ~v.complete \/ v.isLoading THEN v
  ELSE IF st.twoFactorToken = NoChallenge THEN later(v, "login")
  ELSE [v EXCEPT !.isLoading = TRUE, !.verifying = @ + 1]

\* verifyCode() is called by the debounce (auto) or by the button, which is
\* enabled while the code is complete and no verification is loading.  The
\* label records whether a verification was loading when the trigger came.
ViewSubmit(auto) ==
  /\ IF auto THEN view.autoSubmit > 0
             ELSE view.mounted /\ view.complete /\ ~view.isLoading
  /\ LET v == IF auto THEN [view EXCEPT !.autoSubmit = @ - 1] ELSE view
     IN  view' = verifyCode(v, store)
  /\ Quiet
  /\ Did(IF auto THEN "ViewAutoSubmit" ELSE "ViewClickVerify", view.isLoading)
  /\ UNCHANGED <<loginCall, verifyCall, logoutCalls, initCall, requests>>

\* The service accepts the code: the challenge has attempts left (when its
\* lifetime is over, the service answers as in ViewVerifyFailed).
\* authStore.verifyTwoFactor establishes the session, then verifyCode() lines
\* 298-305 and 327.
ViewVerifyOk ==
  /\ view.verifying > 0
  /\ view.serviceAttempts > 0
  /\ Commit(verifyTwoFactorOk(World))
  /\ view' = later([view EXCEPT !.isLoading = FALSE, !.verifying = @ - 1],
                   "dashboard")
  /\ ViewDid("ViewVerifyOk")
  /\ UNCHANGED <<loginCall, verifyCall, logoutCalls, initCall, requests>>

\* The service rejects the code and reports the attempts that remain
\* (lines 317-323 and 327).
ViewVerifyRejected ==
  /\ view.verifying > 0
  /\ view.serviceAttempts > 0
  /\ view' = [view EXCEPT !.serviceAttempts = @ - 1,
                          !.remainingAttempts = view.serviceAttempts - 1,
                          !.complete = FALSE,
                          !.isLoading = FALSE,
                          !.verifying = @ - 1]
  /\ Quiet
  /\ ViewDid("ViewVerifyRejected")
  /\ UNCHANGED <<loginCall, verifyCall, logoutCalls, initCall, requests>>

\* The service answers 429: no attempt is left (lines 311-316 and 327).
ViewVerifyLocked ==
  /\ view.verifying > 0
  /\ view.serviceAttempts = 0
  /\ view' = later([view EXCEPT !.isLoading = FALSE, !.verifying = @ - 1],
                   "locked")
  /\ Quiet
  /\ ViewDid("ViewVerifyLocked")
  /\ UNCHANGED <<loginCall, verifyCall, logoutCalls, initCall, requests>>

\* Any other failure, with no count in its body (lines 324-327).
ViewVerifyFailed ==
  /\ view.verifying > 0
  /\ view' = [view EXCEPT !.isLoading = FALSE, !.verifying = @ - 1]
  /\ Quiet
  /\ ViewDid("ViewVerifyFailed")
  /\ UNCHANGED <<loginCall, verifyCall, logoutCalls, initCall, requests>>

\* resendCode() up to its await (lines 331-341); the button is enabled while
\* resendCooldown is not positive (line 110).
ViewResendSend ==
  /\ view.mounted
  /\ view.resendCooldown <= 0
  /\ view.resending + view.leaked < MaxResendCalls
  /\ view' = IF store.twoFactorToken = NoChallenge
             THEN later(view, "login")
             ELSE [view EXCEPT !.resending = @ + 1]
  /\ Quiet
  /\ ViewDid("ViewResendSend")
  /\ UNCHANGED <<loginCall, verifyCall, logoutCalls, initCall, requests>>

\* startResendCooldown() (lines 384-391): a new interval, which resendTimer
\* names from now on; the interval it named before is not cleared.
startResendCooldown(v) ==
  [v EXCEPT !.leaked = IF v.resendTimer THEN @ + 1 ELSE @,
            !.resendTimer = TRUE]

\* resendCode() after its await (lines 343-353).
resendCodeOk(v) ==
  startResendCooldown(
    [v EXCEPT !.remainingAttempts = MaxAttempts,
              !.timeRemaining = ChallengeSeconds,
              !.resendCooldown = CooldownSeconds,
              !.complete = FALSE,
              !.overdue = FALSE])

ViewResendOk ==
  /\ view.resending > 0
  /\ view' = resendCodeOk([view EXCEPT !.resending = @ - 1])
  /\ Quiet
  /\ ViewDid("ViewResendOk")
  /\ UNCHANGED <<loginCall, verifyCall, logoutCalls, initCall, requests>>

\* resendCode(): the call fails (lines 361-363).
ViewResendFailed ==
  /\ view.resending > 0
  /\ view' = [view EXCEPT !.resending = @ - 1]
  /\ Quiet
  /\ ViewDid("ViewResendFailed")
  /\ UNCHANGED <<loginCall, verifyCall, logoutCalls, initCall, requests>>

\* router.push from the view: to /auth/login, whence an authenticated user is
\* sent on to the dashboard, or to /dashboard; the guard of the dashboard
\* resets the session timers (router/index.ts lines 325-330).
routerPush(w) == guardAfterInit(w)

\* backToLogin() (lines 407-409).
ViewBackToLogin ==
  /\ view.mounted
  /\ Commit(routerPush(World))
  /\ view' = onUnmounted(view)
  /\ ViewDid("ViewBackToLogin")
  /\ UNCHANGED <<loginCall, verifyCall, logoutCalls, initCall, requests>>

\* A redirect callback runs.  "login": line 284 or 335.  "dashboard": lines
\* 302-304.  "locked": lines 312-315, and "expired": lines 376-379, where the
\* call of authStore.clearTwoFactorToken, which the store does not define,
\* throws before router.push.
ViewDelayed(callback) ==
  /\ callback \in view.delayed
  /\ callback = "dashboard" => store.isAuthenticated
  /\ LET v == [view EXCEPT !.delayed = @ \ {callback}]
     IN  IF callback \in {"locked", "expired"}
         THEN view' = v /\ Quiet
         ELSE view' = onUnmounted(v) /\ Commit(routerPush(World))
  /\ ViewDid("ViewDelayed")
  /\ UNCHANGED <<loginCall, verifyCall, logoutCalls, initCall, requests>>

\* The countdown interval's callback (lines 368-380).
countdown(v) ==
  IF v.timeRemaining > 0
  THEN [v EXCEPT !.timeRemaining = @ - 1]
  ELSE later([v EXCEPT !.timer = FALSE], "expired")

\* A resend interval's callback (lines 385-390): clearInterval(resendTimer)
\* stops the interval that resendTimer names, whichever interval runs it.
cooldownStep(v) ==
  LET n == IF v.resendCooldown > -MaxOverrun THEN v.resendCooldown - 1
           ELSE v.resendCooldown
  IN  [v EXCEPT !.resendCooldown = n,
                !.resendTimer = IF n = 0 THEN FALSE ELSE @]

RECURSIVE leakedSteps(_, _)
leakedSteps(v, n) == IF n = 0 THEN v ELSE leakedSteps(cooldownStep(v), n - 1)

\* One second: every running interval calls back once, in the order the
\* intervals were started.
second(v) ==
  LET a == IF v.timer THEN countdown(v) ELSE v
      b == leakedSteps(a, a.leaked)
  IN  IF b.resendTimer THEN cooldownStep(b) ELSE b

RECURSIVE seconds(_, _)
seconds(v, n) == IF n = 0 THEN v ELSE seconds(second(v), n - 1)

\* The page is suspended (a background tab, a sleeping device) until after
\* the challenge's deadline: no interval callback runs meanwhile, and no
\* code of the view looks at the wall clock (startTimer, lines 367-382).
ViewSuspend ==
  /\ view.mounted
  /\ view.timer
  /\ ~view.overdue
  /\ view' = [view EXCEPT !.overdue = TRUE]
  /\ Quiet
  /\ ViewDid("ViewSuspend")
  /\ UNCHANGED <<loginCall, verifyCall, logoutCalls, initCall, requests>>

\* The view's clock advances.  The calls in flight have settled and the
\* callbacks that are due within the step have run.
ViewTick ==
  /\ ViewCallsInFlight = 0
  /\ view.autoSubmit = 0
  /\ view.delayed = {}
  /\ view.timer \/ view.resendTimer \/ view.leaked > 0
  /\ view' = seconds(view, TickSeconds)
  /\ Quiet
  /\ ViewDid("ViewTick")
  /\ UNCHANGED <<loginCall, verifyCall, logoutCalls, initCall, requests>>

\* ------------------------------------------------------------ specification of the view
\* A login has been answered with requires2FA and the router has mounted
\* TwoFactorAuth: onMounted found the token and started the countdown.
InitView ==
  \E rm \in BOOLEAN :
    LET w == loginRequires2FA(
               [store |-> InitStore, ls |-> EmptyLocal, ss |-> EmptySession,
                listeners |-> FALSE, published |-> NoEvents],
               rm, Challenge(rm))
    IN  /\ store = w.store
        /\ localStorage = w.ls
        /\ sessionStorage = w.ss
        /\ listeners = w.listeners
        /\ published = w.published
        /\ loginCall = IdleLogin
        /\ verifyCall = IdleVerify
        /\ logoutCalls = {}
        /\ initCall = IdleInit
        /\ requests = [i \in ApiSlots |-> IdleRequest]
        /\ last = [op |-> "Mounted", rm |-> rm]
        /\ view = MountedView

NextView ==
  \/ ViewEnterCode
  \/ ViewPaste
  \/ ViewEraseDigit
  \/ \E auto \in BOOLEAN : ViewSubmit(auto)
  \/ ViewVerifyOk
  \/ ViewVerifyRejected
  \/ ViewVerifyLocked
  \/ ViewVerifyFailed
  \/ ViewResendSend
  \/ ViewResendOk
  \/ ViewResendFailed
  \/ ViewBackToLogin
  \/ \E callback \in {"login", "dashboard", "locked", "expired"} :
       ViewDelayed(callback)
  \/ ViewSuspend
  \/ ViewTick

SpecView == InitView /\ [][NextView]_vars

\* ------------------------------------------------------------ claims C8..C10

\* C8: while the view of one challenge is mounted, remainingAttempts never
\* increases, and after a rejected code it is the count the service reported.
C8_AttemptsNeverIncrease ==
  [][ (view.mounted /\ view'.mounted) =>
        /\ view'.remainingAttempts <= view.remainingAttempts
        /\ last'.op = "ViewVerifyRejected" =>
             view'.remainingAttempts = view'.serviceAttempts ]_vars

\* C9: once remainingAttempts is 0, no submit issues a verify call.
C9_ExhaustedSubmitsNothing ==
  [][ view.remainingAttempts = 0 => view'.verifying <= view.verifying ]_vars

\* C10: a resend leaves remainingAttempts and the countdown as they are and
\* sets the resend cooldown to 60 seconds.
C10_ResendOnlyResetsCooldown ==
  [][ last'.op = "ViewResendOk" =>
        /\ view'.remainingAttempts = view.remainingAttempts
        /\ view'.timeRemaining = view.timeRemaining
        /\ view'.resendCooldown = CooldownSeconds ]_vars

\* ------------------------------------------------------------ claims C11..C15

\* C11: while a resend call is in flight or the resend cooldown runs, a
\* further resend request issues no network call.
C11_NoResendWithinCooldown ==
  [][ (view.resending > 0 \/ view.resendCooldown > 0)
        => view'.resending <= view.resending ]_vars

\* C12: at most one verify call is outstanding, and a submit trigger that
\* arrives while a verify call is in flight issues no call and changes
\* nothing but the debounce it consumed.
C12_SingleVerifyInFlight ==
  /\ [](view.verifying <= 1)
  /\ [][ (view.verifying > 0 /\ last'.op \in {"ViewAutoSubmit", "ViewClickVerify"})
          => /\ view'.verifying = view.verifying
             /\ [view' EXCEPT !.autoSubmit = view.autoSubmit] = view
             /\ store' = store ]_vars

C12_Witness ==
  /\ last = [op |-> "ViewAutoSubmit", rm |-> TRUE]
  /\ view.verifying = 1

\* C13: once the session is verified, the countdown has expired or a lockout
\* was received and its redirect is pending, a submit issues no verify call.
C13_SubmitOnlyWhilePending ==
  [][ \/ store.isAuthenticated
      \/ view.mounted /\ ~view.timer
      \/ "locked" \in view.delayed
      => view'.verifying <= view.verifying ]_vars

\* C14: when the callback scheduled by the countdown at zero has run, the
\* store's twoFactorToken is cleared and the view has left for the login page.
C14_ExpiryDestroysChallenge ==
  [][ ("expired" \in view.delayed /\ "expired" \notin view'.delayed)
        => (store'.twoFactorToken = NoChallenge /\ ~view'.mounted) ]_vars

\* C15: when the callback scheduled by a lockout answer has run, the store's
\* twoFactorToken is cleared and the view has left for the login page; the
\* locked call is not sent again.
C15_LockoutDestroysChallenge ==
  /\ [][ last'.op = "ViewVerifyLocked" => view'.verifying < view.verifying ]_vars
  /\ [][ ("locked" \in view.delayed /\ "locked" \notin view'.delayed)
          => (store'.twoFactorToken = NoChallenge /\ ~view'.mounted) ]_vars

\* ------------------------------------------------------------ vocabulary
TokensStored ==
  localStorage.access_token # NoToken \/ localStorage.refresh_token # NoToken

UserCached == localStorage.user # Null \/ sessionStorage.user # Null

\* The session as a login leaves it: Ephemeral with the short timeout and no
\* rememberMe marker, Durable with the long timeout, the marker, and the user
\* and the access token in localStorage.
EphemeralSession ==
  /\ store.isAuthenticated
  /\ store.sessionTimeout = EphemeralTimeout
  /\ localStorage.rememberMe # "true"

DurableSession ==
  /\ store.isAuthenticated
  /\ store.sessionTimeout = DurableTimeout
  /\ rememberMeFlag(World)
  /\ localStorage.user # Null
  /\ localStorage.access_token # NoToken

InWarning == store.isAuthenticated /\ store.sessionWarningActive

\* ------------------------------------------------------------ claims C1..C7

\* C1: while a token refresh is in flight, further 401 responses issue no
\* other refresh call: at most one refresh call is outstanding.
C1_SingleRefreshInFlight == RefreshCallsInFlight <= 1

\* C2: a refresh response that arrives after the session ended by timeout is
\* discarded: it stores no token and the original request is not sent again.
C2_LateRefreshDiscarded ==
  [][ (published.timeout = 1 /\ last'.op = "RefreshOk")
        => (~TokensStored' /\ \A i \in ApiSlots : requests'[i].phase # "sent") ]_vars

\* In an Ephemeral session the timeout timer is armed, with at most the short
\* timeout left.
C3_TimerArmed ==
  EphemeralSession =>
    /\ store.sessionTimer.set
    /\ store.sessionTimer.remaining <= EphemeralTimeout

\* C3: in an Ephemeral session the timeout timer is armed and every minute
\* without a reset brings it a minute nearer; when it has run out it fires
\* before more time passes, session-timeout is then published once, for that
\* expiry and by no other logout, and no token and no cached user is stored
\* when it is published.
C3_TimeoutPublishedOnce ==
  /\ []C3_TimerArmed
  /\ [][ /\ (last'.op = "Tick" /\ EphemeralSession) =>
              /\ store.sessionTimer.pending
              /\ store.sessionTimer.remaining > 0
              /\ store'.sessionTimer.remaining = store.sessionTimer.remaining - 1
         /\ last'.op = "SessionTimerFires" =>
              (TRUE \notin logoutCalls /\ TRUE \in logoutCalls')
         /\ (last'.op = "LogoutDone" /\ last'.rm) => published'.timeout = 1
         /\ published'.timeout # 0 =>
              /\ published'.timeout = 1
              /\ TRUE \in logoutCalls /\ TRUE \notin logoutCalls'
              /\ ~TokensStored' /\ ~UserCached'
              /\ ~store'.isAuthenticated /\ store'.user = Null ]_vars

C3_Witness ==
  /\ published.timeout = 1
  /\ last = [op |-> "LogoutDone", rm |-> TRUE]
  /\ ~TokensStored

\* C4: when the warning timer fires, the session enters Warning and a
\* session-warning event is published.
C4_WarningPublished ==
  last.op = "WarningTimerFires" =>
    (store.sessionWarningActive /\ published.warning = 1)

\* C5: in Warning, qualifying activity and the navigation guard leave the
\* warning state and the timeout timer as they are.
C5_OnlyExtendPostpones ==
  [][ (InWarning /\ last'.op \in {"UserActivity", "Navigate"})
        => (store'.sessionWarningActive
            /\ store'.sessionTimer = store.sessionTimer) ]_vars

\* The Durable session as login establishes it: no session timer pending, no
\* warning, no activity listener.
QuietDurable ==
  /\ DurableSession
  /\ ~store.sessionTimer.pending
  /\ ~store.sessionWarningTimer.pending
  /\ ~store.sessionWarningActive
  /\ ~listeners

\* C6: a login or a verification that remembers the user establishes a
\* Durable session with no session timer pending, no warning and no activity
\* listener; from then on the passing of time, extend(), navigation, a page
\* load and the restore of the cached session arm no timer, set no warning,
\* register no listener, publish no event and leave the session Durable; no
\* session timer fires in it.
C6_DurableNeverTimesOut ==
  [][ /\ (last'.op \in {"LoginAuthenticated", "VerifyOk"} /\ rememberMeFlag(World'))
           => QuietDurable'
      /\ QuietDurable =>
           /\ last'.op \notin {"WarningTimerFires", "SessionTimerFires",
                               "UserActivity"}
           /\ (\/ last'.op \in {"Tick", "Extend", "Navigate", "Reload"}
               \/ /\ last'.op \in {"InitUserOk", "InitUserFailed"}
                  /\ initCall.phase = "cached")
                => (QuietDurable' /\ published' = NoEvents) ]_vars

C6_Witness ==
  /\ QuietDurable
  /\ last.op = "Tick"
  /\ store.lastActivity = MaxAge

\* C7: after a successful verification the session has the persistence mode
\* of the login call that issued the verified challenge.
C7_ModeOfVerifiedChallenge ==
  last.op = "VerifyOk" =>
    IF last.rm
    THEN /\ store.sessionTimeout = DurableTimeout
         /\ localStorage.user # Null
         /\ ~store.sessionTimer.pending
    ELSE /\ store.sessionTimeout = EphemeralTimeout
         /\ sessionStorage.user # Null
         /\ store.sessionTimer.pending

\* ------------------------------------------------------------ claims C16..C20

\* C16: after a successful verify response the challenge is discarded, the
\* session is authenticated with a user and both tokens stored, and the session
\* timers are as the persistence mode asks: none for a Durable session, the
\* warning and the timeout timer armed for an Ephemeral one.
C16_VerifiedSessionActive ==
  last.op = "VerifyOk" =>
    /\ store.twoFactorToken = NoChallenge
    /\ ~store.twoFactorRequired
    /\ store.isAuthenticated
    /\ store.user # Null
    /\ localStorage.access_token # NoToken
    /\ localStorage.refresh_token # NoToken
    /\ ~store.sessionWarningActive
    /\ IF rememberMeFlag(World)
       THEN /\ store.sessionTimeout = DurableTimeout
            /\ localStorage.user # Null
            /\ store.sessionTimer = NullTimer
            /\ store.sessionWarningTimer = NullTimer
       ELSE /\ store.sessionTimeout = EphemeralTimeout
            /\ sessionStorage.user # Null
            /\ store.sessionTimer = Armed(EphemeralTimeout)
            /\ store.sessionWarningTimer = Armed(WarningDelay)

C16_Witness ==
  /\ last.op = "VerifyOk"
  /\ store.isAuthenticated
  /\ store.sessionTimer = Armed(EphemeralTimeout)

\* C17: while a 2FA challenge is pending, no access or refresh token is
\* stored and the session is not authenticated.
C17_PendingChallengeHoldsNoTokens ==
  store.twoFactorToken # NoChallenge =>
    (~TokensStored /\ ~store.isAuthenticated)

\* C18: when logout() completes, whatever the remote call answered, both
\* session timers are cancelled, the warning flag is off, no access or refresh
\* token is stored, no user is cached in either storage, and the store is not
\* authenticated.
C18_LogoutTearsDown ==
  last.op = "LogoutDone" =>
    /\ store.sessionTimer = NullTimer
    /\ store.sessionWarningTimer = NullTimer
    /\ ~store.sessionWarningActive
    /\ ~TokensStored
    /\ ~UserCached
    /\ store.user = Null
    /\ ~store.isAuthenticated

C18_Witness ==
  /\ last.op = "LogoutDone"
  /\ ~store.isAuthenticated
  /\ ~TokensStored
  /\ loginCall.phase = "idle"

\* C19: session-timeout is published only by a logout called with
\* isSessionTimeout true; a voluntary logout publishes nothing.
C19_TimeoutOnlyFromTimeoutLogout ==
  /\ [][ published'.timeout # 0 =>
           last' = [op |-> "LogoutDone", rm |-> TRUE] ]_vars
  /\ [][ last' = [op |-> "LogoutDone", rm |-> FALSE] =>
           published' = NoEvents ]_vars

C19_Witness ==
  /\ last = [op |-> "LogoutDone", rm |-> FALSE]
  /\ published.timeout = 0
  /\ ~store.isAuthenticated

\* C20: while the remote logout call of a session timeout is in flight, the
\* session is no longer authenticated, holds no tokens and no cached user,
\* and session-timeout was published when the timer fired.
C20_TeardownBeforeRemoteLogout ==
  /\ [](TRUE \in logoutCalls =>
          (~store.isAuthenticated /\ ~TokensStored /\ ~UserCached))
  /\ [][ last'.op = "SessionTimerFires" => published'.timeout = 1 ]_vars

\* ------------------------------------------------------------ claims C21..C30

\* C21: extend() while the session is in Warning clears the warning flag,
\* restarts the warning timer and the timeout timer from now, and leaves the
\* session authenticated.
C21_ExtendInWarningRestarts ==
  [][ (InWarning /\ last'.op = "Extend") =>
        /\ ~store'.sessionWarningActive
        /\ store'.sessionWarningTimer = Armed(WarningDelay)
        /\ store'.sessionTimer = Armed(store'.sessionTimeout)
        /\ store'.lastActivity = 0
        /\ store'.isAuthenticated ]_vars

\* C22: extend() while the session is not in Warning changes nothing: the
\* timers, the last-activity time and the rest of the store are as before.
C22_ExtendOutsideWarningNoOp ==
  [][ (~InWarning /\ last'.op = "Extend") => store' = store ]_vars

\* C23: a 401 on a request that was not retried, with a refresh token stored,
\* starts a refresh; a successful refresh sends the request again, once, with
\* the new access token; a request that was retried never starts a refresh,
\* so no request is sent more than twice.
C23_RetriedOnce ==
  [][ \A i \in ApiSlots :
        /\ ( /\ last'.op = "Api401"
             /\ requests'[i] # requests[i]
             /\ ~requests[i].retry
             /\ localStorage.refresh_token # NoToken )
           => requests'[i].phase = "refreshing"
        /\ (last'.op = "RefreshOk" /\ requests'[i] # requests[i])
           => /\ ~(requests[i].phase = "sent" /\ requests[i].retry)
              /\ requests'[i].phase = "sent"
              /\ requests'[i].retry
              /\ requests'[i].bearer = RefreshedToken
              /\ localStorage'.access_token = RefreshedToken
        /\ (requests[i].phase = "sent" /\ requests[i].retry)
           => requests'[i].phase \in {"sent", "idle"} ]_vars

C23_Witness ==
  /\ last.op = "RefreshOk"
  /\ \E i \in ApiSlots :
       /\ requests[i].phase = "sent"
       /\ requests[i].retry
       /\ requests[i].bearer = RefreshedToken

\* C24: a 401 on a request that was already retried ends the session as a
\* voluntary logout does (not authenticated, no tokens, no cached user, no
\* timers, nothing published) and loads the login page.
C24_Second401Fatal ==
  [][ \A i \in ApiSlots :
        ( /\ last'.op = "Api401"
          /\ requests'[i] # requests[i]
          /\ requests[i].retry )
        => /\ ~store'.isAuthenticated
           /\ ~TokensStored'
           /\ ~UserCached'
           /\ store'.sessionTimer = NullTimer
           /\ store'.sessionWarningTimer = NullTimer
           /\ published' = NoEvents ]_vars

\* C25: after a failed refresh no token is stored, the session is not
\* authenticated, the original request is not sent again (no call is in
\* flight), and every later authenticated call carries the access token that
\* is stored when it is sent, never one that was cleared.
C25_FailedRefreshFatal ==
  /\ [](last.op = "RefreshFailed" =>
          /\ ~TokensStored
          /\ ~store.isAuthenticated
          /\ \A i \in ApiSlots : requests[i] = IdleRequest)
  /\ [][ \A i \in ApiSlots :
          (last'.op = "ApiSend" /\ requests'[i] # requests[i])
          => requests'[i].bearer = localStorage'.access_token ]_vars

C25_Witness ==
  /\ last.op = "RefreshFailed"
  /\ ~TokensStored
  /\ \A i \in ApiSlots : requests[i].phase = "idle"

\* C26: at most one of localStorage and sessionStorage holds the cached user,
\* and the rememberMe marker is stored only with the user in localStorage.
C26_OnePartition ==
  /\ ~(localStorage.user # Null /\ sessionStorage.user # Null)
  /\ ~(rememberMeFlag(World) /\ sessionStorage.user # Null)

\* C27: once the 2FA view is unmounted, none of its intervals, its debounce
\* or its redirect callbacks runs.
C27_NoCallbackAfterTeardown ==
  [][ ~view.mounted =>
        last'.op \notin {"ViewTick", "ViewAutoSubmit", "ViewDelayed"} ]_vars

\* C28: a rejected login and a rejected verify leave the session as it was:
\* the authenticated flag, the user, the stored tokens and cached user, the
\* pending challenge, the rememberMe marker and the session timers.
C28_RejectionChangesNothing ==
  [][ last'.op \in {"LoginFailed", "VerifyRejected"} =>
        /\ store'.isAuthenticated = store.isAuthenticated
        /\ store'.user = store.user
        /\ store'.twoFactorToken = store.twoFactorToken
        /\ store'.twoFactorRequired = store.twoFactorRequired
        /\ store'.sessionTimer = store.sessionTimer
        /\ store'.sessionWarningTimer = store.sessionWarningTimer
        /\ store'.sessionWarningActive = store.sessionWarningActive
        /\ localStorage' = localStorage
        /\ sessionStorage' = sessionStorage ]_vars

\* C29: a paste of six digits fills every slot and schedules one debounce,
\* posting nothing itself; a debounce that runs on the complete code of a
\* pending challenge, with no verification loading, issues one verify call,
\* and no debounce issues more than one.
C29_PasteSubmitsOnce ==
  [][ /\ last'.op = "ViewPaste" =>
           /\ view'.complete
           /\ view'.autoSubmit = view.autoSubmit + 1
           /\ view'.verifying = view.verifying
      /\ last'.op = "ViewAutoSubmit" =>
           /\ view'.autoSubmit = view.autoSubmit - 1
           /\ view'.verifying =
                 IF /\ view.complete
                    /\ ~view.isLoading
                    /\ store.twoFactorToken # NoChallenge
                 THEN view.verifying + 1
                 ELSE view.verifying ]_vars

C29_Witness ==
  /\ last.op = "ViewPaste"
  /\ view.mounted
  /\ view.complete
  /\ view.autoSubmit = 1
  /\ view.verifying = 0

\* C30: when the intervals resume after a suspension that outlasted the
\* challenge's deadline, the first step of the countdown expires the
\* challenge.
C30_DeadlineNotCounter ==
  [][ (view.overdue /\ view.timer /\ last'.op = "ViewTick")
        => (~view'.timer /\ "expired" \in view'.delayed) ]_vars

\* ------------------------------------------------------------ claims C31..C37

\* C31: while the timeout timer is armed, the time it has left is
\* sessionTimeout less the time since lastActivity (as far as the model
\* follows that time).
C31_DeadlineFollowsActivity ==
  (store.sessionTimer.pending /\ store.sessionTimeout = EphemeralTimeout) =>
    IF store.lastActivity < MaxAge
    THEN store.sessionTimer.remaining = store.sessionTimeout - store.lastActivity
    ELSE store.sessionTimer.remaining <= store.sessionTimeout - MaxAge

\* C32: isAuthenticated becomes true only by a login answered with a session
\* or by a verified 2FA code.
C32_ActiveOnlyByLoginOrVerify ==
  [][ (~store.isAuthenticated /\ store'.isAuthenticated)
        => last'.op \in {"LoginAuthenticated", "VerifyOk"} ]_vars

\* C33: when the navigation guard has handled a route that requires
\* authentication for an unauthenticated store with a pending challenge, the
\* challenge is still in the store and the guard redirects to TwoFactorAuth.
C33_GuardKeepsChallenge ==
  [][ ( /\ last'.op = "Navigate"
        /\ initCall'.phase = "idle"
        /\ ~store.isAuthenticated
        /\ store.twoFactorRequired
        /\ store.twoFactorToken # NoChallenge )
      => /\ store'.twoFactorToken = store.twoFactorToken
         /\ store'.twoFactorRequired
         /\ guardRedirect(store') = "TwoFactorAuth" ]_vars

\* C34: whenever a session timer is armed or the warning flag is set, the
\* store is authenticated and the rememberMe marker is not set.
C34_TimersOnlyForEphemeral ==
  ( \/ store.sessionTimer.pending
    \/ store.sessionWarningTimer.pending
    \/ store.sessionWarningActive )
  => (store.isAuthenticated /\ ~rememberMeFlag(World))

\* C35: no session timeout is pending besides the two that the handles
\* sessionWarningTimer and sessionTimer name: arming cancels the previous
\* pair first, so no timer armed before the latest reset is left to fire.
C35_OnePairOfTimers == store.orphaned = 0

C35_Witness ==
  /\ last.op = "UserActivity"
  /\ store.isAuthenticated
  /\ store.sessionWarningTimer = Armed(WarningDelay)
  /\ store.sessionTimer = Armed(EphemeralTimeout)

\* C36: the resend cooldown is always within 0..60, and when it is 0 no
\* resend interval is running.
C36_CooldownInRange ==
  /\ view.resendCooldown >= 0
  /\ view.resendCooldown <= CooldownSeconds
  /\ view.resendCooldown = 0 => (~view.resendTimer /\ view.leaked = 0)

\* C37: a verify call answered with success after the pending challenge was
\* cleared from the store establishes nothing: the authenticated flag, the
\* user and the stored tokens are as before the answer.
C37_LateVerifyEstablishesNothing ==
  [][ (last'.op = "VerifyOk" /\ store.twoFactorToken = NoChallenge) =>
        /\ store'.isAuthenticated = store.isAuthenticated
        /\ store'.user = store.user
        /\ localStorage'.access_token = localStorage.access_token
        /\ localStorage'.refresh_token = localStorage.refresh_token ]_vars

============================================================================
